---- MODULE Spec2Model ----
(***************************************************************************)
(* The TCP port forwarder of reroute.py: the listener (start_server), the  *)
(* per-connection session setup (handle_client_connection) and the two     *)
(* copy loops of a session (forward_data), together with the peers at the  *)
(* far side of the client and remote connections. The webhook service of   *)
(* fastapi_app (main.py, sheets.py) is a program of its own and has a      *)
(* specification of its own, SpecWeb.                                      *)
(***************************************************************************)
EXTENDS Integers, Sequences, FiniteSets, TLC

\* ---------------------------------------------------------------- bounds
MaxBytes == 3         \* bytes the peers of one connection send in a single-connection run
MaxBytesMulti == 2    \* bytes all peers together send in a two-connection run
MaxAcceptFail == 2    \* accept() failures in one run
MaxBytesFew == 1      \* bytes the peers send in a run about the listener or about faults in two sessions

\* BUFFER_SIZE of reroute.py is 4096; the model scales it down so that a
\* message longer than one buffer fits in MaxBytes.
BUFFER_SIZE == 2

\* Connections are numbered in the order the listener accepts them. Two are
\* enough for every statement about a pair of sessions.
Conn == {1, 2}
Side == {"client", "remote"}
Dir == {"c2r", "r2c"}

\* The forwarder never looks at the bytes it relays, so each byte is modelled
\* by what tells it apart from every other byte: the endpoint (c, s) its peer
\* sent it to, its position i in that peer's stream, and the number w of the
\* write that carried it.
Byte(c, s, i, w) == <<c, s, i, w>>

\* The number of the last write in the stream u (0 when nothing was written).
LastWrite(u) == IF u = <<>> THEN 0 ELSE u[Len(u)][4]

\* The n bytes a peer adds to the stream u of endpoint (c, s) in one write.
Chunk(c, s, u, n) == [i \in 1..n |-> Byte(c, s, Len(u) + i, LastWrite(u) + 1)]

VARIABLES
    srv,            \* position of start_server
    server_socket,  \* "none" | "open" | "closed"
    outcome,        \* why start_server left its try block
    acceptFails,    \* accept() calls that raised socket.error
    h,              \* h[c]: position of handle_client_connection for connection c
    sock,           \* sock[c, s]: "none" | "open" | "closed" (client_socket, remote_socket)
    sent,           \* sent[c, s]: bytes the peer of endpoint (c, s) has sent to it
    rd,             \* rd[c, s]: bytes recv() has returned from endpoint (c, s)
    out,            \* out[c, s]: bytes sendall() has written to endpoint (c, s)
    fin,            \* fin[c, s]: the peer of endpoint (c, s) has closed its connection
    t,              \* t[c, d]: position of forward_data for direction d of connection c
    data,           \* data[c, d]: the part of the chunk in hand not yet written
    why             \* why[c, d]: how the copy loop was left: "none", "eof" (recv returned
                    \* b""), "error" (a call raised on a live connection), "badfd" (a call
                    \* raised because the socket object was already closed)

VARIABLES
    PATREON_WEBHOOK_SECRET,  \* main.py line 18, read once when the module is imported
    users,                   \* InMemoryDB.users: a dict from user id to the stored data
    request,                 \* the request the service handled last
    response                 \* and its answer: [code |-> status code, body |-> JSON object]

webVars == <<PATREON_WEBHOOK_SECRET, users, request, response>>

vars == <<srv, server_socket, outcome, acceptFails, h, sock, sent, rd, out, fin, t, data, why,
          webVars>>

listenerVars == <<srv, server_socket, outcome, acceptFails>>
streamVars == <<sent, rd, out, fin>>
taskVars == <<t, data, why>>

\* ---------------------------------------------------------------- helpers
Min(a, b) == IF a < b THEN a ELSE b

IsPrefix(s, u) == Len(s) <= Len(u) /\ SubSeq(u, 1, Len(s)) = s

RECURSIVE SumLen(_, _)
SumLen(f, E) ==
    IF E = {} THEN 0
    ELSE LET e == CHOOSE x \in E : TRUE IN Len(f[e]) + SumLen(f, E \ {e})

TotalSent == SumLen(sent, Conn \X Side)

\* ---------------------------------------------------------------- wiring
\* handle_client_connection, lines 68-76: the arguments of the two threads.
Src(d) == IF d = "c2r" THEN "client" ELSE "remote"

Dst(d) == IF d = "c2r" THEN "remote" ELSE "client"

SrcSockOfClient(c, d) == <<c, "client">>

SrcSock(c, d) == <<c, Src(d)>>

DstSockShared(c, d) == <<1, Dst(d)>>

DstSock(c, d) == <<c, Dst(d)>>

\* ---------------------------------------------------------------- Init
\* Python's None, where the other values are strings.
None == "None"

\* Before the first request: nothing stored (InMemoryDB.__init__, sheets.py
\* line 96), nothing asked, nothing answered. os.getenv gives the secret, or
\* None when the variable is not set (main.py lines 18-22 log and go on).
NoRequest == [method |-> "none"]

NoResponse == [code |-> 0, body |-> [k \in {} |-> None]]

InitWebhook(secrets) ==
    /\ PATREON_WEBHOOK_SECRET \in secrets
    /\ users = [k \in {} |-> None]
    /\ request = NoRequest
    /\ response = NoResponse

Init ==
    /\ InitWebhook({None})
    /\ srv = "socket"
    /\ server_socket = "none"
    /\ outcome = "none"
    /\ acceptFails = 0
    /\ h = [c \in Conn |-> "none"]
    /\ sock = [e \in Conn \X Side |-> "none"]
    /\ sent = [e \in Conn \X Side |-> <<>>]
    /\ rd = [e \in Conn \X Side |-> <<>>]
    /\ out = [e \in Conn \X Side |-> <<>>]
    /\ fin = [e \in Conn \X Side |-> FALSE]
    /\ t = [x \in Conn \X Dir |-> "none"]
    /\ data = [x \in Conn \X Dir |-> <<>>]
    /\ why = [x \in Conn \X Dir |-> "none"]

\* ---------------------------------------------------------------- start_server
\* Where start_server goes after accept() raised socket.error (lines 116-119):
\* the handler only prints, so the while loop goes round again.
AfterAcceptErrorBreak == "finally"

AfterAcceptError == "accept"

\* Where start_server goes after bind()/listen() raised socket.error (lines 124-127):
\* the outer handler prints and falls into the finally block.
AfterSetupErrorRetry == "bind"

AfterSetupError == "finally"

\* Where start_server goes after client_handler.start() returned (line 115):
\* round the loop to accept, without waiting for the handler.
AfterSpawnJoin == "join"

AfterSpawn == "accept"

\* Where start_server goes on KeyboardInterrupt (lines 120-122, or uncaught
\* before the loop): out of the loop and into the finally block.
AfterInterruptIgnored == "accept"

AfterInterrupt == "finally"

\* line 98: socket.socket(...)
CreateSocket ==
    /\ srv = "socket"
    /\ server_socket' = "open"
    /\ srv' = "bind"
    /\ UNCHANGED <<outcome, acceptFails, h, sock, streamVars, taskVars, webVars>>

\* line 98 raises socket.error: server_socket is still None
CreateSocketFail ==
    /\ srv = "socket"
    /\ outcome' = "socket_error"
    /\ srv' = AfterSetupError
    /\ UNCHANGED <<server_socket, acceptFails, h, sock, streamVars, taskVars, webVars>>

\* lines 99-103: setsockopt, bind, listen
BindListen ==
    /\ srv = "bind"
    /\ srv' = "accept"
    /\ UNCHANGED <<server_socket, outcome, acceptFails, h, sock, streamVars, taskVars, webVars>>

\* lines 100-101 raise socket.error, caught at line 124
BindListenFail ==
    /\ srv = "bind"
    /\ outcome' = "bind_error"
    /\ srv' = AfterSetupError
    /\ UNCHANGED <<server_socket, acceptFails, h, sock, streamVars, taskVars, webVars>>

\* line 107: accept() returns the next connection (connections are numbered in
\* the order they are accepted)
Accept(c) ==
    /\ srv = "accept"
    /\ server_socket = "open"
    /\ h[c] = "none"
    /\ \A b \in Conn : b < c => h[b] # "none"
    /\ h' = [h EXCEPT ![c] = "accepted"]
    /\ sock' = [sock EXCEPT ![c, "client"] = "open"]
    /\ srv' = "spawn"
    /\ UNCHANGED <<server_socket, outcome, acceptFails, streamVars, taskVars, webVars>>

\* line 107 raises socket.error, caught at line 116
AcceptError ==
    /\ srv = "accept"
    /\ acceptFails < MaxAcceptFail
    /\ acceptFails' = acceptFails + 1
    /\ srv' = AfterAcceptError
    /\ UNCHANGED <<server_socket, outcome, h, sock, streamVars, taskVars, webVars>>

\* lines 110-115: the handler thread is started
SpawnHandler(c) ==
    /\ srv = "spawn"
    /\ h[c] = "accepted"
    /\ h' = [h EXCEPT ![c] = "connect"]
    /\ srv' = AfterSpawn
    /\ UNCHANGED <<server_socket, outcome, acceptFails, sock, streamVars, taskVars, webVars>>

\* line 115 raises RuntimeError (no thread can be started): not a socket.error,
\* so it leaves the while loop and is caught at line 128
SpawnHandlerFail(c) ==
    /\ srv = "spawn"
    /\ h[c] = "accepted"
    /\ h' = [h EXCEPT ![c] = "orphan"]
    /\ outcome' = "spawn_error"
    /\ srv' = "finally"
    /\ UNCHANGED <<server_socket, acceptFails, sock, streamVars, taskVars, webVars>>

\* KeyboardInterrupt in the main thread: caught at line 120 inside the loop,
\* uncaught before it; either way the finally block runs next
Interrupt ==
    /\ srv \in {"socket", "bind", "accept", "spawn"}
    /\ outcome' = "interrupt"
    /\ srv' = AfterInterrupt
    /\ UNCHANGED <<server_socket, acceptFails, h, sock, streamVars, taskVars, webVars>>

\* lines 130-133
CloseServer ==
    /\ srv = "finally"
    /\ server_socket' = IF server_socket = "none" THEN "none" ELSE "closed"
    /\ srv' = "done"
    /\ UNCHANGED <<outcome, acceptFails, h, sock, streamVars, taskVars, webVars>>

\* lines 163-168: start_server was the last statement of the script, so when
\* it returns the process ends. Every handler and forwarding thread is a
\* daemon thread (lines 78-79, 114) and is stopped where it stands, and the
\* system closes every socket the process still holds.
Exit ==
    /\ srv = "done"
    /\ srv' = "exited"
    /\ h' = [c \in Conn |->
               IF h[c] \in {"connect", "start_c2r", "start_r2c"} THEN "killed" ELSE h[c]]
    /\ t' = [x \in Conn \X Dir |->
               IF t[x] \in {"none", "done"} THEN t[x] ELSE "killed"]
    /\ sock' = [e \in Conn \X Side |->
               IF sock[e] \in {"open", "unconnected"} THEN "closed" ELSE sock[e]]
    /\ UNCHANGED <<server_socket, outcome, acceptFails, streamVars, data, why, webVars>>

\* ---------------------------------------------------------------- handle_client_connection
\* Where handle_client_connection goes after connect raised socket.error
\* (lines 59-64): it returns.
AfterConnectErrorGoOn == "start_c2r"

AfterConnectErrorRetry == "connect"

AfterConnectError == "failed"

\* What the except block of lines 59-64 leaves of the client socket.
ClientAfterConnectError == "closed"

\* Where handle_client_connection goes after r2c_thread.start() returned
\* (lines 82-90): it returns; the joins of lines 88-89 are commented out.
AfterStartR2CJoin == "join"

AfterStartR2C == "done"

\* lines 55-58: the outbound socket is created and connected
Connect(c) ==
    /\ h[c] = "connect"
    /\ sock' = [sock EXCEPT ![c, "remote"] = "open"]
    /\ h' = [h EXCEPT ![c] = "start_c2r"]
    /\ UNCHANGED <<listenerVars, streamVars, taskVars, webVars>>

\* lines 55-57 raise socket.error (at socket(): remote_socket is still None; at
\* connect(): it exists); lines 59-64 close what there is and return
ConnectFail(c) ==
    /\ h[c] = "connect"
    /\ \E created \in BOOLEAN :
          sock' = [sock EXCEPT ![c, "client"] = ClientAfterConnectError,
                               ![c, "remote"] = IF created THEN "closed" ELSE "none"]
    /\ h' = [h EXCEPT ![c] = AfterConnectError]
    /\ UNCHANGED <<listenerVars, streamVars, taskVars, webVars>>

\* line 57 raises something that is no socket.error (OverflowError for a port
\* above 65535, ValueError for a host name that cannot be encoded): nothing
\* catches it, the handler thread dies with it, and both sockets stay as
\* they are, the outbound one created and not connected
ConnectCrash(c) ==
    /\ h[c] = "connect"
    /\ sock' = [sock EXCEPT ![c, "remote"] = "unconnected"]
    /\ h' = [h EXCEPT ![c] = "connect_crashed"]
    /\ UNCHANGED <<listenerVars, streamVars, taskVars, webVars>>

\* line 81: c2r_thread.start()
StartC2R(c) ==
    /\ h[c] = "start_c2r"
    /\ t' = [t EXCEPT ![c, "c2r"] = "recv"]
    /\ h' = [h EXCEPT ![c] = "start_r2c"]
    /\ UNCHANGED <<listenerVars, sock, streamVars, data, why, webVars>>

\* line 81 raises RuntimeError: the handler thread dies with it
StartC2RFail(c) ==
    /\ h[c] = "start_c2r"
    /\ h' = [h EXCEPT ![c] = "crashed"]
    /\ UNCHANGED <<listenerVars, sock, streamVars, taskVars, webVars>>

\* line 82: r2c_thread.start(); the function then returns
StartR2C(c) ==
    /\ h[c] = "start_r2c"
    /\ t' = [t EXCEPT ![c, "r2c"] = "recv"]
    /\ h' = [h EXCEPT ![c] = AfterStartR2C]
    /\ UNCHANGED <<listenerVars, sock, streamVars, data, why, webVars>>

\* line 82 raises RuntimeError
StartR2CFail(c) ==
    /\ h[c] = "start_r2c"
    /\ h' = [h EXCEPT ![c] = "crashed"]
    /\ UNCHANGED <<listenerVars, sock, streamVars, taskVars, webVars>>

\* ---------------------------------------------------------------- forward_data
\* line 21: recv(BUFFER_SIZE) returns at most BUFFER_SIZE of the n bytes waiting
RecvLenAll(n) == n

RecvLen(n) == Min(BUFFER_SIZE, n)

\* The bytes waiting at endpoint e: sent by its peer, not yet returned by recv.
Avail(e) == SubSeq(sent[e], Len(rd[e]) + 1, Len(sent[e]))

\* line 26: what one send() inside sendall(data) puts on the wire when it takes
\* k bytes: the first k bytes of data
WirePieceTwice(d, k) == SubSeq(d, 1, k) \o SubSeq(d, 1, k)

WirePiece(d, k) == SubSeq(d, 1, k)

\* Where forward_data goes when recv returned b"" (lines 22-24): break, then finally
AfterEofGoOn == "recv"

AfterEof == "close_src"

\* Where forward_data goes after its first close (lines 36-39): the second close
AfterCloseSrcReturn == "done"

AfterCloseSrc == "close_dst"

\* Where forward_data goes after one send() of sendall (line 26) left `rest`
\* unwritten: sendall sends again until nothing is left, then the loop reads.
AfterSendOnce(rest) == "close_src"

AfterSendNoRetry(rest) == "recv"

AfterSend(rest) == IF rest = <<>> THEN "recv" ELSE "send"

\* Where forward_data goes when recv or sendall raised (lines 28-34): the
\* except clause prints and the finally block follows; nothing is retried.
AfterStreamErrorRetry == "recv"

AfterStreamError == "close_src"

\* The positions of a task inside recv: "recv" (the call is made or about to
\* be made) and "recv_pending" (the call was blocked with nothing to return
\* when the other task closed the socket object under it).
InRecv == {"recv", "recv_pending"}

\* The positions of a task inside sendall: "send" (a send() is made or about to
\* be made) and "send_pending" (a send() was under way when the other task
\* closed the socket object under it).
InSend == {"send", "send_pending"}

\* The tasks after socket e was closed by a task that goes to position `next`:
\* a task blocked in recv on e, with nothing to read, is left pending, and so is
\* a task in sendall on e.
AfterClose(x, next, e) ==
    [y \in Conn \X Dir |->
        IF y = x THEN next
        ELSE IF /\ SrcSock(y[1], y[2]) = e
                /\ t[y] = "recv"
                /\ sock[e] = "open"
                /\ Avail(e) = <<>>
                /\ ~fin[e]
             THEN "recv_pending"
             ELSE IF /\ DstSock(y[1], y[2]) = e
                     /\ t[y] = "send"
                     /\ sock[e] = "open"
             THEN "send_pending"
             ELSE t[y]]

\* The sockets the finally block closes, first and second (lines 37 and 41).
ToCloseFirstOfAll(c, d) == <<1, Src(d)>>

ToCloseFirst(c, d) == SrcSock(c, d)

ToCloseSecondTypo(c, d) == SrcSock(c, d)

ToCloseSecond(c, d) == DstSock(c, d)

\* line 21 returns data
RecvData(c, d) ==
    LET e == SrcSock(c, d)
        chunk == SubSeq(Avail(e), 1, RecvLen(Len(Avail(e))))
    IN  /\ t[c, d] = "recv"
        /\ sock[e] = "open"
        /\ Avail(e) # <<>>
        /\ rd' = [rd EXCEPT ![e] = @ \o chunk]
        /\ data' = [data EXCEPT ![c, d] = chunk]
        /\ t' = [t EXCEPT ![c, d] = "send"]
        /\ UNCHANGED <<listenerVars, h, sock, sent, out, fin, why, webVars>>

\* line 21 returns b"": the peer has closed and everything it sent was read
RecvEof(c, d) ==
    LET e == SrcSock(c, d)
    IN  /\ t[c, d] = "recv"
        /\ sock[e] = "open"
        /\ Avail(e) = <<>>
        /\ fin[e]
        /\ why' = [why EXCEPT ![c, d] = "eof"]
        /\ t' = [t EXCEPT ![c, d] = AfterEof]
        /\ UNCHANGED <<listenerVars, h, sock, streamVars, data, webVars>>

\* line 21 raises on a live connection (reset by the peer, any other socket
\* error); lines 28-33 catch it
RecvReset(c, d) ==
    /\ t[c, d] = "recv"
    /\ sock[SrcSock(c, d)] = "open"
    /\ why' = [why EXCEPT ![c, d] = "error"]
    /\ t' = [t EXCEPT ![c, d] = AfterStreamError]
    /\ UNCHANGED <<listenerVars, h, sock, streamVars, data, webVars>>

\* line 21 raises because the other task of the session has closed the socket
\* object; lines 28-33 catch it
RecvOnClosed(c, d) ==
    /\ t[c, d] = "recv"
    /\ sock[SrcSock(c, d)] = "closed"
    /\ why' = [why EXCEPT ![c, d] = "badfd"]
    /\ t' = [t EXCEPT ![c, d] = AfterStreamError]
    /\ UNCHANGED <<listenerVars, h, sock, streamVars, data, webVars>>

\* line 21 was blocked when the other task closed the socket object. What the
\* call does then depends on the platform: it raises (lines 28-33 catch it),
\* or it stays blocked for as long as the peer stays silent.
PendingRecvWoken(c, d) ==
    /\ t[c, d] = "recv_pending"
    /\ why' = [why EXCEPT ![c, d] = "badfd"]
    /\ t' = [t EXCEPT ![c, d] = AfterStreamError]
    /\ UNCHANGED <<listenerVars, h, sock, streamVars, data, webVars>>

\* line 26: one send() of sendall takes k bytes of what is left of the chunk
SendPiece(c, d, k) ==
    LET e == DstSock(c, d)
    IN  /\ t[c, d] = "send"
        /\ sock[e] = "open"
        /\ k \in 1..Len(data[c, d])
        /\ out' = [out EXCEPT ![e] = @ \o WirePiece(data[c, d], k)]
        /\ data' = [data EXCEPT ![c, d] = SubSeq(@, k + 1, Len(@))]
        /\ t' = [t EXCEPT ![c, d] = AfterSend(SubSeq(data[c, d], k + 1, Len(data[c, d])))]
        /\ UNCHANGED <<listenerVars, h, sock, sent, rd, fin, why, webVars>>

\* line 26 raises on a live connection (reset, broken pipe, any other socket
\* error); lines 28-33 catch it and what is left of the chunk is dropped
SendReset(c, d) ==
    /\ t[c, d] = "send"
    /\ sock[DstSock(c, d)] = "open"
    /\ why' = [why EXCEPT ![c, d] = "error"]
    /\ data' = [data EXCEPT ![c, d] = <<>>]
    /\ t' = [t EXCEPT ![c, d] = AfterStreamError]
    /\ UNCHANGED <<listenerVars, h, sock, streamVars, webVars>>

\* line 26 raises because the other task of the session has closed the socket
\* object; lines 28-33 catch it
SendOnClosed(c, d) ==
    /\ t[c, d] = "send"
    /\ sock[DstSock(c, d)] = "closed"
    /\ why' = [why EXCEPT ![c, d] = "badfd"]
    /\ data' = [data EXCEPT ![c, d] = <<>>]
    /\ t' = [t EXCEPT ![c, d] = AfterStreamError]
    /\ UNCHANGED <<listenerVars, h, sock, streamVars, webVars>>

\* line 26 was inside a send() when the other task closed the socket object.
\* close() in one thread does not stop a call under way in another: the call
\* may still write k bytes to the connection (sendall then goes on: with the
\* next send() if bytes are left, with line 21 otherwise), or it raises.
PendingSendDelivers(c, d, k) ==
    LET e == DstSock(c, d)
    IN  /\ t[c, d] = "send_pending"
        /\ k \in 1..Len(data[c, d])
        /\ out' = [out EXCEPT ![e] = @ \o WirePiece(data[c, d], k)]
        /\ data' = [data EXCEPT ![c, d] = SubSeq(@, k + 1, Len(@))]
        /\ t' = [t EXCEPT ![c, d] = AfterSend(SubSeq(data[c, d], k + 1, Len(data[c, d])))]
        /\ UNCHANGED <<listenerVars, h, sock, sent, rd, fin, why, webVars>>

PendingSendRaises(c, d) ==
    /\ t[c, d] = "send_pending"
    /\ why' = [why EXCEPT ![c, d] = "badfd"]
    /\ data' = [data EXCEPT ![c, d] = <<>>]
    /\ t' = [t EXCEPT ![c, d] = AfterStreamError]
    /\ UNCHANGED <<listenerVars, h, sock, streamVars, webVars>>

\* Where forward_data goes when source_socket.close() raised socket.error
\* (lines 38-39): the except clause passes and line 40 follows.
AfterCloseSrcErrorRaised == "raised"

AfterCloseSrcError == "close_dst"

\* Where forward_data goes when destination_socket.close() raised socket.error
\* (lines 42-43): the except clause passes and the function returns.
AfterCloseDstErrorRaised == "raised"

AfterCloseDstError == "done"

\* lines 36-39: source_socket.close(); a socket.error is swallowed
CloseSrc(c, d) ==
    /\ t[c, d] = "close_src"
    /\ sock' = [sock EXCEPT ![ToCloseFirst(c, d)] = "closed"]
    /\ t' = AfterClose(<<c, d>>, AfterCloseSrc, ToCloseFirst(c, d))
    /\ UNCHANGED <<listenerVars, h, streamVars, data, why, webVars>>

\* lines 40-43: destination_socket.close(); a socket.error is swallowed
CloseDst(c, d) ==
    /\ t[c, d] = "close_dst"
    /\ sock' = [sock EXCEPT ![ToCloseSecond(c, d)] = "closed"]
    /\ t' = AfterClose(<<c, d>>, "done", ToCloseSecond(c, d))
    /\ UNCHANGED <<listenerVars, h, streamVars, data, why, webVars>>

\* line 37 raises socket.error (the close of the descriptor failed; the socket
\* object is closed all the same); lines 38-39 swallow it
CloseSrcFail(c, d) ==
    /\ t[c, d] = "close_src"
    /\ sock[ToCloseFirst(c, d)] = "open"
    /\ sock' = [sock EXCEPT ![ToCloseFirst(c, d)] = "closed"]
    /\ t' = AfterClose(<<c, d>>, AfterCloseSrcError, ToCloseFirst(c, d))
    /\ UNCHANGED <<listenerVars, h, streamVars, data, why, webVars>>

\* line 41 raises socket.error; lines 42-43 swallow it
CloseDstFail(c, d) ==
    /\ t[c, d] = "close_dst"
    /\ sock[ToCloseSecond(c, d)] = "open"
    /\ sock' = [sock EXCEPT ![ToCloseSecond(c, d)] = "closed"]
    /\ t' = AfterClose(<<c, d>>, AfterCloseDstError, ToCloseSecond(c, d))
    /\ UNCHANGED <<listenerVars, h, streamVars, data, why, webVars>>

\* ---------------------------------------------------------------- the peers
\* The peer of endpoint (c, s) writes n bytes to its connection in one write.
PeerSend(c, s, n, budget) ==
    /\ sock[c, s] = "open"
    /\ ~fin[c, s]
    /\ TotalSent + n <= budget
    /\ sent' = [sent EXCEPT ![c, s] = @ \o Chunk(c, s, @, n)]
    /\ UNCHANGED <<listenerVars, h, sock, rd, out, fin, taskVars, webVars>>

\* The peer of endpoint (c, s) closes its connection.
PeerClose(c, s) ==
    /\ sock[c, s] = "open"
    /\ ~fin[c, s]
    /\ fin' = [fin EXCEPT ![c, s] = TRUE]
    /\ UNCHANGED <<listenerVars, h, sock, sent, rd, out, taskVars, webVars>>

\* ---------------------------------------------------------------- specification
\* start_server with every outcome of every call.
Listener(conns) ==
    \/ CreateSocket
    \/ CreateSocketFail
    \/ BindListen
    \/ BindListenFail
    \/ AcceptError
    \/ Interrupt
    \/ CloseServer
    \/ Exit
    \/ \E c \in conns : Accept(c)
    \/ \E c \in Conn : SpawnHandler(c)
    \/ \E c \in Conn : SpawnHandlerFail(c)

Handler ==
    \E c \in Conn :
        \/ Connect(c)
        \/ ConnectFail(c)
        \/ ConnectCrash(c)
        \/ StartC2R(c)
        \/ StartC2RFail(c)
        \/ StartR2C(c)
        \/ StartR2CFail(c)

Forward ==
    \E c \in Conn, d \in Dir :
        \/ RecvData(c, d)
        \/ RecvEof(c, d)
        \/ RecvReset(c, d)
        \/ RecvOnClosed(c, d)
        \/ PendingRecvWoken(c, d)
        \/ \E k \in 1..BUFFER_SIZE : SendPiece(c, d, k)
        \/ SendReset(c, d)
        \/ SendOnClosed(c, d)
        \/ \E k \in 1..BUFFER_SIZE : PendingSendDelivers(c, d, k)
        \/ PendingSendRaises(c, d)
        \/ CloseSrc(c, d)
        \/ CloseSrcFail(c, d)
        \/ CloseDst(c, d)
        \/ CloseDstFail(c, d)

Peers(budget) ==
    \E c \in Conn, s \in Side :
        \/ \E n \in 1..budget : PeerSend(c, s, n, budget)
        \/ PeerClose(c, s)

\* One connection, every outcome of every call, messages longer than the buffer.
Next == Listener({1}) \/ Handler \/ Forward \/ Peers(MaxBytes)

Spec == Init /\ [][Next]_vars

\* Two connections side by side. The listener starts up and accepts both; the
\* calls that can fail are connect and the reads and writes on a socket the
\* other task has closed.
ListenerOk(conns) ==
    \/ CreateSocket
    \/ BindListen
    \/ \E c \in conns : Accept(c)
    \/ \E c \in Conn : SpawnHandler(c)

HandlerTwo ==
    \E c \in Conn :
        \/ Connect(c)
        \/ ConnectFail(c)
        \/ StartC2R(c)
        \/ StartR2C(c)

ForwardTwo ==
    \E c \in Conn, d \in Dir :
        \/ RecvData(c, d)
        \/ RecvEof(c, d)
        \/ RecvOnClosed(c, d)
        \/ PendingRecvWoken(c, d)
        \/ \E k \in 1..BUFFER_SIZE : SendPiece(c, d, k)
        \/ SendOnClosed(c, d)
        \/ \E k \in 1..BUFFER_SIZE : PendingSendDelivers(c, d, k)
        \/ PendingSendRaises(c, d)
        \/ CloseSrc(c, d)
        \/ CloseSrcFail(c, d)
        \/ CloseDst(c, d)
        \/ CloseDstFail(c, d)

NextTwo == ListenerOk(Conn) \/ HandlerTwo \/ ForwardTwo \/ Peers(MaxBytesMulti)

SpecTwo == Init /\ [][NextTwo]_vars

\* Fairness: a thread that can take its next step takes it (the scheduler runs
\* every thread), a read returns when bytes or the end of the stream are there,
\* a write on an open connection makes progress, and a call made on a closed
\* socket object raises. Nothing is assumed of the peers, of the listener's
\* accept, of faults, or of a recv that was already blocked when its socket
\* object was closed.
Fairness ==
    /\ \A c \in Conn : WF_vars(StartC2R(c)) /\ WF_vars(StartR2C(c))
    /\ \A c \in Conn, d \in Dir :
          /\ WF_vars(RecvData(c, d) \/ RecvEof(c, d))
          /\ WF_vars(RecvOnClosed(c, d))
          /\ WF_vars(\E k \in 1..BUFFER_SIZE : SendPiece(c, d, k))
          /\ WF_vars(SendOnClosed(c, d))
          /\ WF_vars((\E k \in 1..BUFFER_SIZE : PendingSendDelivers(c, d, k))
                       \/ PendingSendRaises(c, d))
          /\ WF_vars(CloseSrc(c, d))
          /\ WF_vars(CloseDst(c, d))

\* One connection that the listener has accepted without trouble, every
\* outcome of every call of its session, under fairness.
NextSession == ListenerOk({1}) \/ Handler \/ Forward \/ Peers(MaxBytes)

FairSpec == Init /\ [][NextSession]_vars /\ Fairness

\* ---------------------------------------------------------------- properties
\* The session of connection c exists: its outbound connect has succeeded.
Session(c) ==
    \/ h[c] \in {"start_c2r", "start_r2c", "done", "crashed"}
    \/ h[c] = "killed" /\ sock[c, "remote"] # "none"

\* The session of connection c is established: both directions are wired up.
Established(c) == t[c, "c2r"] # "none" /\ t[c, "r2c"] # "none"

\* A task of connection c has left its copy loop.
LoopLeft(c) == \E d \in Dir : why[c, d] # "none"

\* Both tasks of connection c have terminated.
Over(c) == \A d \in Dir : t[c, d] = "done"

\* What the receiving side of direction d has observed, and what was sent to it.
Observed(c, d) == out[DstSock(c, d)]

Sent(c, d) == sent[SrcSock(c, d)]

Read(c, d) == rd[SrcSock(c, d)]

\* C1 (as stated): every byte sent in an established session is eventually
\* observed by the receiving side. Stated on the finished session: when both
\* tasks have terminated and no call raised on a live connection, each side
\* has observed everything that was sent to it.
C1_AllSentIsObserved ==
    \A c \in Conn, d \in Dir :
        (Over(c) /\ \A x \in Dir : why[c, x] # "error") => Observed(c, d) = Sent(c, d)

\* C1 (amended): in an established session the receiving side always has a
\* prefix of what was sent (same bytes, same order, whatever the chunking), and
\* the n-th byte sent is eventually observed unless a task of the session
\* leaves its copy loop first.
C1_DeliveredUnlessLoopLeft ==
    \A d \in Dir, n \in 1..MaxBytes :
        (Established(1) /\ Len(Sent(1, d)) >= n)
            ~> (LoopLeft(1) \/ (Len(Observed(1, d)) >= n /\ IsPrefix(Observed(1, d), Sent(1, d))))

C1_Witness ==
    /\ Established(1)
    /\ ~LoopLeft(1)
    /\ Len(Sent(1, "c2r")) = MaxBytes
    /\ LastWrite(Sent(1, "c2r")) > 1
    /\ Observed(1, "c2r") = Sent(1, "c2r")

\* C2: in each direction, what was written to the destination is a prefix of
\* what was read from the source, which is a prefix of what the peer sent.
C2_WrittenPrefixOfReadPrefixOfSent ==
    \A c \in Conn, d \in Dir :
        /\ IsPrefix(Observed(c, d), Read(c, d))
        /\ IsPrefix(Read(c, d), Sent(c, d))

C2_Witness ==
    \E d \in Dir :
        /\ Len(Observed(1, d)) = 1
        /\ Len(Read(1, d)) = 2
        /\ Len(Sent(1, d)) = 3

\* C3: in an established session, once the peer of one endpoint has closed its
\* connection, the other endpoint of the session is eventually closed.
C3_PeerCloseLeadsToClose ==
    \A d \in Dir :
        (Established(1) /\ fin[SrcSock(1, d)]) ~> (sock[DstSock(1, d)] = "closed")

C3_Witness ==
    /\ fin[1, "client"]
    /\ why[1, "c2r"] = "eof"
    /\ why[1, "r2c"] = "none"
    /\ sock[1, "remote"] = "closed"

\* C4: a task runs only in a session whose connect succeeded; after a failed
\* connect the client endpoint is closed, no task of the connection has been
\* started, and nothing was read from or written to the client endpoint.
C4_ConnectFailureStartsNothing ==
    \A c \in Conn :
        /\ (\E d \in Dir : t[c, d] # "none") => (Session(c) /\ sock[c, "remote"] # "none")
        /\ h[c] = "failed" =>
              /\ sock[c, "client"] = "closed"
              /\ \A d \in Dir : t[c, d] = "none"
              /\ rd[c, "client"] = <<>>
              /\ out[c, "client"] = <<>>

C4_Witness == h[1] = "failed" /\ sent[1, "client"] # <<>> /\ sock[1, "remote"] = "none"

\* C5: every byte written to an endpoint of a session entered the forwarder at
\* the opposite endpoint of the same session.
C5_NoCrossTalk ==
    \A c \in Conn, s \in Side :
        \A i \in 1..Len(out[c, s]) : out[c, s][i][1] = c /\ out[c, s][i][2] # s

C5_Witness ==
    /\ out[1, "remote"] # <<>>
    /\ out[2, "remote"] # <<>>
    /\ \A c \in Conn : t[c, "c2r"] = "recv" /\ t[c, "r2c"] = "recv"

\* C6: once a task of a session has terminated, both endpoints of the session
\* are closed; and a close of an endpoint that is already closed changes no
\* endpoint and lets the task go on to its next step.
C6_TerminatedMeansBothClosed ==
    /\ [](\A c \in Conn, d \in Dir :
            t[c, d] = "done" => sock[c, "client"] = "closed" /\ sock[c, "remote"] = "closed")
    /\ [][\A c \in Conn, d \in Dir :
            /\ (t[c, d] = "close_src" /\ t'[c, d] \notin {"close_src", "killed"}
                   /\ sock[SrcSock(c, d)] = "closed")
                  => (sock' = sock /\ t'[c, d] = "close_dst")
            /\ (t[c, d] = "close_dst" /\ t'[c, d] \notin {"close_dst", "killed"}
                   /\ sock[DstSock(c, d)] = "closed")
                  => (sock' = sock /\ t'[c, d] = "done")]_vars

C6_Witness ==
    /\ Over(1)
    /\ why[1, "c2r"] = "eof"
    /\ why[1, "r2c"] = "badfd"

\* C7 (as stated): in every state of an established session the client
\* endpoint is closed exactly when the remote endpoint is.
C7_ClosedTogether ==
    \A c \in Conn :
        Established(c) => (sock[c, "client"] = "closed" <=> sock[c, "remote"] = "closed")

\* C7 (amended): in every state of a session in which no task is between its
\* two close calls, the client endpoint is closed exactly when the remote
\* endpoint is.
C7_ClosedTogetherOutsideClose ==
    \A c \in Conn :
        (Session(c) /\ \A d \in Dir : t[c, d] # "close_dst")
            => (sock[c, "client"] = "closed" <=> sock[c, "remote"] = "closed")

C7_Witness ==
    /\ Established(1)
    /\ t[1, "c2r"] = "done"
    /\ t[1, "r2c"] = "recv"
    /\ sock[1, "client"] = "closed"
    /\ sock[1, "remote"] = "closed"

\* C8: no read returns more than BUFFER_SIZE bytes, so a longer message takes
\* several reads; and when a direction ends on a clean end of stream, what was
\* written to the destination is the message, byte for byte.
C8_ChunkedAndReassembled ==
    \A c \in Conn, d \in Dir :
        /\ Len(data[c, d]) <= BUFFER_SIZE
        /\ why[c, d] = "eof" => Observed(c, d) = Sent(c, d)

C8_Witness ==
    \E d \in Dir :
        /\ why[1, d] = "eof"
        /\ Len(Sent(1, d)) > BUFFER_SIZE
        /\ LastWrite(Sent(1, d)) = 1
        /\ Observed(1, d) = Sent(1, d)

\* C9: a failed accept leaves the listener in its loop, about to call accept
\* again, with the listening socket open.
C9_AcceptFailureKeepsListening ==
    [][acceptFails' > acceptFails =>
          /\ srv' = "accept"
          /\ server_socket' = "open"
          /\ outcome' = "none"]_vars

C9_Witness ==
    /\ acceptFails = MaxAcceptFail
    /\ srv = "spawn"
    /\ h[1] = "accepted"

\* C10: after a failed bind or listen, start_server has called accept not
\* once, has started no session, does not go back to bind, and ends with the
\* listening socket closed.
C10_BindFailureIsFatal ==
    outcome = "bind_error" =>
        /\ srv \in {"finally", "done", "exited"}
        /\ acceptFails = 0
        /\ \A c \in Conn : h[c] = "none"
        /\ \A e \in Conn \X Side : sock[e] = "none"
        /\ srv \in {"done", "exited"} => server_socket = "closed"

C10_Witness == outcome = "bind_error" /\ srv = "done" /\ server_socket = "closed"

\* ------------------------------------------------ further specifications
\* One connection, every failure path of the listener, and the main thread
\* running on: once start_server is in its finally block it gets through it,
\* and once it has returned the script ends.
NextListener == Listener({1}) \/ Handler \/ Forward \/ Peers(MaxBytesFew)

FairListener == Init /\ [][NextListener]_vars /\ WF_vars(CloseServer) /\ WF_vars(Exit)

\* Two connections with stream errors and connect failures in both.
NextTwoFaulty == ListenerOk(Conn) \/ HandlerTwo \/ Forward \/ Peers(MaxBytesFew)

SpecTwoFaulty == Init /\ [][NextTwoFaulty]_vars

\* start_server is in its accept loop: the socket listens and nothing has
\* taken the main thread out of the try block.
ListenerRunning ==
    /\ outcome = "none"
    /\ server_socket = "open"
    /\ srv # "bind"

\* The other direction of a session.
Peer(d) == IF d = "c2r" THEN "r2c" ELSE "c2r"

\* The ForwardingTask (c, d) is blocked: in recv with nothing to return, or in
\* sendall (the remote peer decides when a write goes through).
Blocked(c, d) ==
    \/ t[c, d] \in InRecv /\ Avail(SrcSock(c, d)) = <<>> /\ ~fin[SrcSock(c, d)]
    \/ t[c, d] = "send"

\* ---------------------------------------------------------------- C11..C16
\* C11: once an interrupt has reached start_server with the listening socket
\* open, the listening socket is eventually closed, and from the interrupt on
\* no connection is accepted.
C11_InterruptStopsListener ==
    /\ (outcome = "interrupt" /\ server_socket = "open") ~> (server_socket = "closed")
    /\ [][outcome = "interrupt" =>
             \A c \in Conn : h[c] = "none" => h'[c] = "none"]_vars

C11_Witness ==
    /\ outcome = "interrupt"
    /\ srv = "done"
    /\ server_socket = "closed"
    /\ Established(1)
    /\ ~LoopLeft(1)

\* C12: while the listener is running and is not in the middle of starting a
\* handler thread, accept can be called for the next connection, whatever the
\* handlers and ForwardingTasks of the earlier connections are doing.
C12_AcceptNeverWaits ==
    (ListenerRunning /\ srv # "spawn" /\ \E c \in Conn : h[c] = "none")
        => ENABLED (\E c \in Conn : Accept(c))

C12_Witness ==
    /\ ListenerRunning
    /\ srv = "accept"
    /\ h[1] = "done"
    /\ h[2] = "none"
    /\ Blocked(1, "c2r")
    /\ Blocked(1, "r2c")
    /\ t[1, "c2r"] = "recv"
    /\ t[1, "r2c"] = "send"

\* C13: once handle_client_connection has ended after a successful connect,
\* both ForwardingTasks of the session have been started.
C13_ExactlyTwoTasks ==
    \A c \in Conn :
        h[c] \in {"done", "crashed"} => (t[c, "c2r"] # "none" /\ t[c, "r2c"] # "none")

\* C14: after a successful connect handle_client_connection ends, whether or
\* not its ForwardingTasks ever do.
C14_HandlerReturns ==
    \A c \in Conn : (h[c] = "start_c2r") ~> (h[c] \in {"done", "crashed"})

C14_Witness ==
    /\ h[1] = "done"
    /\ Blocked(1, "c2r")
    /\ Blocked(1, "r2c")
    /\ \A e \in Conn \X Side : e[1] = 1 => sock[e] = "open" /\ ~fin[e]

\* C15: when one ForwardingTask of an established session has terminated, the
\* other one eventually terminates too.
C15_PeerTaskTerminates ==
    \A c \in Conn, d \in Dir :
        (Established(c) /\ t[c, d] = "done") ~> (t[c, Peer(d)] = "done")

\* Everything session b consists of: its handler, its two endpoints with the
\* bytes that went through them, and its two ForwardingTasks.
SessionState(b) ==
    <<h[b],
      [s \in Side |-> <<sock[b, s], sent[b, s], rd[b, s], out[b, s], fin[b, s]>>],
      [d \in Dir |-> <<t[b, d], data[b, d], why[b, d]>>]>>

\* A step in which session a fails or tears itself down after a failure: its
\* connect fails, one of its tasks gets an error from recv or sendall, or a
\* task that got an error closes a socket.
FailureStep(a) ==
    \/ h[a] = "connect" /\ h'[a] = "failed"
    \/ \E d \in Dir :
          \/ why[a, d] = "none" /\ why'[a, d] \in {"error", "badfd"}
          \/ why[a, d] \in {"error", "badfd"} /\ t'[a, d] # t[a, d]

\* C16: a step in which one session fails, or tears itself down after a
\* failure, changes nothing of any other session and nothing of the listener.
C16_FailuresAreLocal ==
    [][\A a \in Conn :
          FailureStep(a) =>
              /\ UNCHANGED listenerVars
              /\ \A b \in Conn \ {a} : SessionState(b)' = SessionState(b)]_vars

C16_Witness ==
    /\ ListenerRunning
    /\ why[1, "c2r"] = "error"
    /\ t[1, "c2r"] = "done"
    /\ t[1, "r2c"] = "done"
    /\ h[2] = "failed" \/ (Established(2) /\ ~LoopLeft(2) /\ Observed(2, "r2c") # <<>>)

\* ---------------------------------------------------------------- C19, C20
\* C19: a ForwardingTask reads only when everything it has read so far has
\* been written: in recv nothing read is unwritten, every step that reads
\* starts from there, and a sendall that fails leaves the loop for the finally
\* block, chunk unwritten or not.
C19_WriteBeforeNextRead ==
    /\ [](\A c \in Conn, d \in Dir :
            t[c, d] \in InRecv => Observed(c, d) = Read(c, d))
    /\ [][\A c \in Conn, d \in Dir :
            /\ Read(c, d)' # Read(c, d) => Observed(c, d) = Read(c, d)
            /\ (t[c, d] = "send" /\ why'[c, d] # "none") => t'[c, d] = "close_src"]_vars

C19_Witness ==
    \E d \in Dir :
        /\ why[1, d] = "error"
        /\ t[1, d] = "done"
        /\ Len(Read(1, d)) = BUFFER_SIZE
        /\ Len(Observed(1, d)) = 1

\* C20: a task that got an error from recv or sendall goes straight to its
\* finally block, leaving the handler and the listener as they were; from then
\* on it reads nothing and writes nothing, and it ends with both its sockets
\* closed.
C20_StreamErrorEndsTask ==
    /\ \A c \in Conn, d \in Dir :
          (why[c, d] \in {"error", "badfd"})
              ~> (/\ t[c, d] = "done"
                  /\ sock[SrcSock(c, d)] = "closed"
                  /\ sock[DstSock(c, d)] = "closed")
    /\ [][\A c \in Conn, d \in Dir :
            /\ (why[c, d] = "none" /\ why'[c, d] \in {"error", "badfd"})
                  => (t'[c, d] = "close_src" /\ UNCHANGED <<listenerVars, h>>)
            /\ why[c, d] \in {"error", "badfd"}
                  => /\ Read(c, d)' = Read(c, d)
                     /\ Observed(c, d)' = Observed(c, d)
                     /\ why'[c, d] = why[c, d]
                     /\ t'[c, d] \in {"close_src", "close_dst", "done"}]_vars

C20_Witness ==
    /\ ListenerRunning
    /\ h[1] = "done"
    /\ why[1, "c2r"] = "error"
    /\ t[1, "c2r"] = "done"
    /\ Read(1, "c2r") # <<>>
    /\ sock[1, "client"] = "closed"
    /\ sock[1, "remote"] = "closed"

\* ---------------------------------------------------------------- C21..C30
\* C21: a task that has reached its finally block gets to its end: whatever
\* the close of the source socket does (it closes, finds the socket closed
\* already, or raises), the close of the destination socket comes next and the
\* task ends after it, with both sockets closed and nothing of the handler or
\* the listener changed.
C21_ClosesIndependentlyGuarded ==
    /\ \A c \in Conn, d \in Dir : (t[c, d] = "close_src") ~> (t[c, d] = "done")
    /\ [][\A c \in Conn, d \in Dir :
            /\ (t[c, d] = "close_src" /\ t'[c, d] # "close_src")
                  => /\ t'[c, d] = "close_dst"
                     /\ sock'[SrcSock(c, d)] = "closed"
                     /\ UNCHANGED <<listenerVars, h>>
            /\ (t[c, d] = "close_dst" /\ t'[c, d] # "close_dst")
                  => /\ t'[c, d] = "done"
                     /\ sock'[DstSock(c, d)] = "closed"
                     /\ UNCHANGED <<listenerVars, h>>]_vars

\* A task that left its loop from recv on a source the other task had closed,
\* and so closed a socket that was closed already, has ended.
C21_Witness ==
    \E d \in Dir :
        /\ t[1, d] = "done"
        /\ why[1, d] = "badfd"
        /\ Observed(1, d) = Read(1, d)
        /\ Read(1, d) # <<>>
        /\ why[1, Peer(d)] = "eof"

\* The tasks that call recv on endpoint e, and those that call sendall on it.
Readers(e) == {x \in Conn \X Dir : SrcSock(x[1], x[2]) = e}

Writers(e) == {x \in Conn \X Dir : DstSock(x[1], x[2]) = e}

\* C22: the client endpoint of a session is read by its client->remote task
\* and written by its remote->client task, the remote endpoint the other way
\* round, and no step of any other task reads from or writes to an endpoint.
C22_OneReaderOneWriter ==
    /\ [](\A c \in Conn :
            /\ Readers(<<c, "client">>) = {<<c, "c2r">>}
            /\ Writers(<<c, "client">>) = {<<c, "r2c">>}
            /\ Readers(<<c, "remote">>) = {<<c, "r2c">>}
            /\ Writers(<<c, "remote">>) = {<<c, "c2r">>})
    /\ [][\A e \in Conn \X Side :
            /\ rd'[e] # rd[e] =>
                  \E x \in Readers(e) :
                      /\ t[x] = "recv" /\ t'[x] = "send"
                      /\ \A y \in (Conn \X Dir) \ {x} : t'[y] = t[y] /\ data'[y] = data[y]
            /\ out'[e] # out[e] =>
                  \E x \in Writers(e) :
                      /\ t[x] \in InSend /\ data'[x] # data[x]
                      /\ \A y \in (Conn \X Dir) \ {x} : t'[y] = t[y] /\ data'[y] = data[y]]_vars

C22_Witness ==
    /\ Established(1)
    /\ \A s \in Side : rd[1, s] # <<>> /\ out[1, s] # <<>>
    /\ t[1, "c2r"] = "send"
    /\ t[1, "r2c"] = "recv"

\* C23: a task that has terminated stays terminated and reads and writes
\* nothing more, and an endpoint that has been closed stays closed and no
\* byte is read from it or written to it any more.
C23_TerminationIsOneWay ==
    [][/\ \A c \in Conn, d \in Dir :
            t[c, d] = "done" =>
                /\ t'[c, d] = "done"
                /\ Read(c, d)' = Read(c, d)
                /\ Observed(c, d)' = Observed(c, d)
       /\ \A e \in Conn \X Side :
            sock[e] = "closed" =>
                /\ sock'[e] = "closed"
                /\ rd'[e] = rd[e]
                /\ out'[e] = out[e]]_vars

\* C30: once a task that read the end of its stream has closed both endpoints
\* and ended, no byte of the opposite direction is written any more.
C30_NothingDeliveredAfterEofClose ==
    [][\A c \in Conn, d \in Dir :
          (why[c, d] = "eof" /\ t[c, d] = "done")
              => Observed(c, Peer(d))' = Observed(c, Peer(d))]_vars

\* C24: a handler makes its connect attempt once, as its first step, and
\* never again, whether the attempt fails or not; the outbound socket of a
\* connection comes from that attempt, is the remote endpoint of that session
\* only, is read and written by the tasks of that session only, and once
\* closed is never open again.
C24_OneConnectOwnRemote ==
    /\ [](\A c \in Conn :
            /\ Session(c) => sock[c, "remote"] # "none"
            /\ \A b \in Conn \ {c} :
                  /\ DstSock(b, "c2r") # DstSock(c, "c2r")
                  /\ SrcSock(b, "r2c") # SrcSock(c, "r2c"))
    /\ [][\A c \in Conn :
            /\ (h'[c] = "connect" /\ h[c] # "connect") => h[c] = "accepted"
            /\ h[c] \notin {"none", "accepted", "connect"} => h'[c] # "connect"
            /\ (h[c] = "connect" /\ <<sock[c, "client"], sock[c, "remote"]>>'
                                      # <<sock[c, "client"], sock[c, "remote"]>>)
                  => h'[c] # "connect"
            /\ (sock[c, "remote"] = "none" /\ sock'[c, "remote"] # "none")
                  => h[c] = "connect"
            /\ sock[c, "remote"] = "closed" => sock'[c, "remote"] = "closed"
            /\ rd'[c, "remote"] # rd[c, "remote"] => t'[c, "r2c"] # t[c, "r2c"]
            /\ out'[c, "remote"] # out[c, "remote"] => data'[c, "c2r"] # data[c, "c2r"]]_vars

C24_Witness ==
    /\ h[1] = "failed"
    /\ Established(2)
    /\ sock[2, "remote"] = "open"
    /\ out[2, "remote"] # <<>>

\* A thread of connection c that is running: its handler, its tasks.
HandlerRunning(c) ==
    h[c] \notin {"none", "accepted", "orphan", "failed", "connect_crashed",
                 "crashed", "done", "killed"}

TaskRunning(c, d) == t[c, d] \notin {"none", "done", "killed"}

\* C25 (as stated): no step the main thread takes once it has been interrupted
\* changes anything of a session.
C25_StopChangesOnlyListener ==
    [][(outcome' = "interrupt" /\ srv' # srv)
          => UNCHANGED <<h, sock, streamVars, taskVars>>]_vars

\* C25 (amended): the interrupt and the close of the listening socket change
\* nothing of any session; start_server then returns, the process ends, and
\* after that no handler and no task is running and no endpoint is open.
C25_StopThenExit ==
    /\ [][(outcome' = "interrupt" /\ srv' # srv /\ srv' # "exited")
             => UNCHANGED <<h, sock, streamVars, taskVars>>]_vars
    /\ (outcome = "interrupt")
          ~> (/\ srv = "exited"
              /\ \A c \in Conn : ~HandlerRunning(c)
              /\ \A c \in Conn, d \in Dir : ~TaskRunning(c, d)
              /\ \A e \in Conn \X Side : sock[e] \in {"none", "closed"})

C25_Witness ==
    /\ outcome = "interrupt"
    /\ srv = "exited"
    /\ t[1, "c2r"] = "killed"
    /\ data[1, "c2r"] # <<>>
    /\ t[1, "r2c"] = "killed"

\* Nothing has come from the peers of session c and none of them has failed.
Silent(c) ==
    /\ \A s \in Side : sent[c, s] = <<>> /\ ~fin[c, s]
    /\ \A d \in Dir : why[c, d] # "error"

\* C26 (as stated): a task leaves its loop only with an end of stream or an
\* error of its own, and an established session whose peers are silent has
\* both tasks in recv and both endpoints open.
C26_NoCancellation ==
    /\ [](\A c \in Conn :
            (Established(c) /\ Silent(c))
                => /\ \A d \in Dir : t[c, d] = "recv"
                   /\ \A s \in Side : sock[c, s] = "open")
    /\ [][\A c \in Conn, d \in Dir :
            (t[c, d] \in InRecv \cup InSend /\ t'[c, d] \notin InRecv \cup InSend)
                => why'[c, d] \in {"eof", "error", "badfd"}]_vars

\* C26 (amended): the same for as long as the process runs.
C26_NoCancellationWhileRunning ==
    /\ [](\A c \in Conn :
            (Established(c) /\ Silent(c) /\ srv # "exited")
                => /\ \A d \in Dir : t[c, d] = "recv"
                   /\ \A s \in Side : sock[c, s] = "open")
    /\ [][\A c \in Conn, d \in Dir :
            (/\ t[c, d] \in InRecv \cup InSend
             /\ t'[c, d] \notin InRecv \cup InSend
             /\ srv' # "exited")
                => why'[c, d] \in {"eof", "error", "badfd"}]_vars

C26_Witness ==
    /\ ListenerRunning
    /\ acceptFails = MaxAcceptFail
    /\ Established(1)
    /\ Silent(1)
    /\ \A d \in Dir : t[1, d] = "recv"

\* The threads of connection c that are running.
Units(c) ==
    (IF HandlerRunning(c) THEN 1 ELSE 0) + Cardinality({d \in Dir : TaskRunning(c, d)})

C28_LoopEndsOnlyOnInterrupt ==
    srv \in {"finally", "done", "exited"}
        => outcome \in {"socket_error", "bind_error", "interrupt"}

\* Somebody will close the sockets of connection c: the listener is about to
\* start its handler, its handler is running, or one of its tasks is.
Responsible(c) ==
    \/ h[c] = "accepted" /\ srv = "spawn"
    \/ HandlerRunning(c)
    \/ \E d \in Dir : TaskRunning(c, d)

\* C29: every socket of a connection that is open has somebody who will
\* close it.
C29_NoEndpointLeaked ==
    \A c \in Conn, s \in Side :
        sock[c, s] \in {"open", "unconnected"} => Responsible(c)

\* ------------------------------------------------- the webhook service
\* Everything of the forwarder, which the webhook service never touches.
forwarderVars == <<listenerVars, h, sock, streamVars, taskVars>>

\* User ids a payload can carry; "" and None are the ids `not user_id` rejects.
UserIds == {"u1", "u2"}

\* Secrets: the one of test_webhook.py line 21 and one nobody configured.
Secrets == {"test-secret", "wrong-secret"}

\* Event names, as the words between their colons. NoEvent stands for a field
\* that is absent or null (WebhookEnvelope's default, main.py lines 25-26).
NoEvent == <<>>

EventCreate == <<"members", "pledge", "create">>

EventDelete == <<"members", "pledge", "delete">>

EventDestroy == <<"Members", "DESTROY">>

\* str.lower() on the words used here.
Lower(w) ==
    CASE w = "DESTROY" -> "destroy"
      [] w = "Members" -> "members"
      [] OTHER -> w

\* hmac.new(secret.encode("utf-8"), body, hashlib.md5).hexdigest(): a value
\* that is a function of the key and of the body, and differs when either does.
Hmac(secret, body) == <<"hmac-md5", secret, body>>

\* The X-Patreon-Signature header: absent (the default None), empty, or a digest.
NoHeader == <<None>>

EmptyHeader == <<"">>

\* The "included" list: empty, or with the user's attributes in it.
IncludedUser == <<[type |-> "campaign", full_name |-> None, email |-> None],
                  [type |-> "user", full_name |-> "Ann", email |-> "ann@example.org"]>>

\* Request bodies: bytes that are not JSON, and envelopes. data is None, or
\* has a type and, under relationships.user.data, an id.
Bodies ==
    [json : {TRUE},
     event_type : {NoEvent, EventCreate, EventDelete},
     original_event_type : {NoEvent, EventCreate, EventDestroy},
     data : {[type |-> None, id |-> None],
             [type |-> "campaign", id |-> "u1"],
             [type |-> "member", id |-> None],
             [type |-> "member", id |-> ""],
             [type |-> "member", id |-> "u1"],
             [type |-> "member", id |-> "u2"]},
     included : {<<>>, IncludedUser}]
    \cup
    [json : {FALSE},
     event_type : {NoEvent},
     original_event_type : {NoEvent},
     data : {[type |-> None, id |-> None]},
     included : {<<>>}]

\* The signatures a sender can put on a body.
Signatures(body) == {NoHeader, EmptyHeader} \cup {Hmac(k, body) : k \in Secrets}

\* main.py lines 60-65. With no secret configured, secret.encode raises
\* AttributeError as soon as there is a signature to compare with.
verify_signature_raises(secret, signature) ==
    /\ signature \notin {NoHeader, EmptyHeader}
    /\ secret = None

verify_signature(secret, signature, body) ==
    IF signature \in {NoHeader, EmptyHeader} THEN FALSE
    ELSE Hmac(secret, body) = signature

\* main.py line 85
EventType(body) ==
    IF body.original_event_type # NoEvent THEN body.original_event_type
    ELSE body.event_type

\* main.py lines 89-94: the attributes of the first included item of type user
UserAttributes(body) ==
    LET I == {i \in 1..Len(body.included) : body.included[i].type = "user"}
    IN  IF I = {} THEN [full_name |-> None, email |-> None]
        ELSE LET i == CHOOSE i \in I : \A j \in I : i <= j
             IN  [full_name |-> body.included[i].full_name,
                  email |-> body.included[i].email]

\* main.py lines 97-100
UserId(body) == IF body.data.type = "member" THEN body.data.id ELSE None

\* main.py line 106
IsRemoval(event_type) ==
    /\ event_type # NoEvent
    /\ \E i \in 1..Len(event_type) : Lower(event_type[i]) \in {"delete", "destroy"}

\* sheets.py lines 98-100 and 102-105
upsert_user(user_id, d) ==
    [k \in DOMAIN users \cup {user_id} |-> IF k = user_id THEN d ELSE users[k]]

delete_user(user_id) ==
    [k \in DOMAIN users \ {user_id} |-> users[k]]

\* The methods of the database object main.py can call (sheets.py lines 12-105:
\* SheetsDB and InMemoryDB both define these and no other).
DbMethods == {"upsert_user", "delete_user"}

\* What the framework answers when a handler raises something that is not an
\* HTTPException.
ServerError == [code |-> 500, body |-> [text |-> "Internal Server Error"]]

\* main.py lines 68-119
WebhookAnswer(signature, body) ==
    IF verify_signature_raises(PATREON_WEBHOOK_SECRET, signature)
    THEN ServerError
    ELSE IF ~verify_signature(PATREON_WEBHOOK_SECRET, signature, body)
    THEN [code |-> 401, body |-> [detail |-> "Invalid signature"]]
    ELSE IF ~body.json
    THEN [code |-> 400, body |-> [detail |-> "Invalid JSON"]]
    ELSE IF UserId(body) \in {None, ""}
    THEN [code |-> 200,
          body |-> [success |-> FALSE, detail |-> "No user ID found in payload"]]
    ELSE IF IsRemoval(EventType(body))
    THEN [code |-> 200, body |-> [status |-> "deleted", user_id |-> UserId(body)]]
    ELSE [code |-> 200, body |-> [status |-> "upserted", user_id |-> UserId(body)]]

patreon_webhook(signature, body) ==
    LET answer == WebhookAnswer(signature, body)
    IN  /\ request' = [method |-> "POST", path |-> "/webhook",
                       signature |-> signature, body |-> body]
        /\ response' = answer
        /\ users' =
             IF answer.code # 200 \/ "status" \notin DOMAIN answer.body
             THEN users
             ELSE IF answer.body.status = "deleted"
             THEN delete_user(UserId(body))
             ELSE upsert_user(UserId(body),
                              [full_name |-> UserAttributes(body).full_name,
                               email |-> UserAttributes(body).email,
                               last_event |-> EventType(body)])
        /\ UNCHANGED <<forwarderVars, PATREON_WEBHOOK_SECRET>>

\* main.py lines 35-52: line 42 calls a method the database object lacks
check_patron_status(user_id) ==
    /\ request' = [method |-> "GET", path |-> "/check_patron", user_id |-> user_id]
    /\ response' =
         IF "get_user" \notin DbMethods
         THEN ServerError
         ELSE IF user_id \in DOMAIN users
         THEN [code |-> 200,
               body |-> [is_patron |-> TRUE, user_id |-> user_id, data |-> users[user_id]]]
         ELSE [code |-> 404, body |-> [detail |-> "Patron not found"]]
    /\ UNCHANGED <<forwarderVars, PATREON_WEBHOOK_SECRET, users>>

\* main.py lines 55-57
health ==
    /\ request' = [method |-> "GET", path |-> "/health"]
    /\ response' = [code |-> 200, body |-> [status |-> "ok"]]
    /\ UNCHANGED <<forwarderVars, PATREON_WEBHOOK_SECRET, users>>

NextWeb ==
    \/ \E body \in Bodies : \E signature \in Signatures(body) :
          patreon_webhook(signature, body)
    \/ \E user_id \in UserIds \cup {"u3"} : check_patron_status(user_id)
    \/ health

\* The service starts with the secret of its environment, set or not.
InitWeb ==
    /\ InitWebhook({None, "test-secret"})
    /\ srv = "socket"
    /\ server_socket = "none"
    /\ outcome = "none"
    /\ acceptFails = 0
    /\ h = [c \in Conn |-> "none"]
    /\ sock = [e \in Conn \X Side |-> "none"]
    /\ sent = [e \in Conn \X Side |-> <<>>]
    /\ rd = [e \in Conn \X Side |-> <<>>]
    /\ out = [e \in Conn \X Side |-> <<>>]
    /\ fin = [e \in Conn \X Side |-> FALSE]
    /\ t = [x \in Conn \X Dir |-> "none"]
    /\ data = [x \in Conn \X Dir |-> <<>>]
    /\ why = [x \in Conn \X Dir |-> "none"]

SpecWeb == InitWeb /\ [][NextWeb]_vars

\* The last request was a webhook call signed with the configured secret.
SignedWebhook ==
    /\ request.method = "POST"
    /\ PATREON_WEBHOOK_SECRET # None
    /\ request.signature = Hmac(PATREON_WEBHOOK_SECRET, request.body)

\* ---------------------------------------------------------------- C17
\* C17: a webhook call signed with the configured secret, whose data is of
\* type member and carries a user id, is answered 200 with success true.
C17_SignedMemberEventSucceeds ==
    (/\ SignedWebhook
     /\ request.body.json
     /\ request.body.data.type = "member"
     /\ request.body.data.id \in UserIds)
        => /\ response.code = 200
           /\ "success" \in DOMAIN response.body
           /\ response.body.success = TRUE

\* ---------------------------------------------------------------- C18
\* C18: GET /check_patron/{user_id} answers 200 with is_patron true and the
\* stored data when the store holds the user id (its latest accepted event was
\* an upsert), and 404 'Patron not found' when it does not.
C18_CheckPatronFollowsStore ==
    (request.method = "GET" /\ request.path = "/check_patron")
        => IF request.user_id \in DOMAIN users
           THEN /\ response.code = 200
                /\ response.body.is_patron = TRUE
                /\ response.body.data = users[request.user_id]
           ELSE /\ response.code = 404
                /\ response.body.detail = "Patron not found"

\* ---------------------------------------------------------------- C31
\* The last request was a webhook call whose signature header is missing, or
\* is not the digest of its body under the secret of the service.
IllSignedWebhook ==
    /\ request.method = "POST"
    /\ \/ request.signature = NoHeader
       \/ PATREON_WEBHOOK_SECRET = None
       \/ request.signature # Hmac(PATREON_WEBHOOK_SECRET, request.body)

\* C31: a webhook call whose signature is missing or is not the digest of its
\* body under the secret is answered 401, and the store is as it was before.
C31_BadSignatureRejected ==
    /\ [](IllSignedWebhook => response.code = 401)
    /\ [][IllSignedWebhook' => users' = users]_vars

====
